---- MODULE Spec2Model ----
(***************************************************************************)
(* HubSpot -> QuickBooks integration backend.                              *)
(*                                                                         *)
(* State machine of the OAuth token lifecycle (quickbooksService.js), the  *)
(* invoice orchestration and the invoice reconciliation                    *)
(* (invoiceService.js).  Every handler is an async function: it is         *)
(* modelled as a process whose steps are the stretches of code between     *)
(* awaited network calls, so that concurrent requests interleave exactly   *)
(* at the awaits.                                                          *)
(***************************************************************************)
EXTENDS Integers, FiniteSets, Sequences, TLC

(***************************************************************************)
(* Bounds of the model                                                     *)
(***************************************************************************)
\* granularity of the wall clock (ms)
TickMs == 30000
\* number of clock ticks
MaxTicks == 3
\* number of token sets the OAuth server issues
MaxTokenGen == 3
\* number of client-credential versions (rotations + 1)
MaxCredsVersion == 2
\* access-token lifetime granted by the OAuth server (seconds)
ExpiresInSec == 60
\* value of env QUICKBOOKS_CREDS_TTL_MS in the modelled deployment (ms)
QUICKBOOKS_CREDS_TTL_MS == 60000

\* invoice ids each QuickBooks company hands out
MaxInvoiceId == 2
\* customers each QuickBooks company can hold for the contact's email
MaxCustomers == 2

\* concurrent requests in flight
Procs == {"p1", "p2"}
\* the deals of the CRM; every deal is requested for the contact "C1"
Deals == {"D1", "D2"}
InvoiceIds == 1..MaxInvoiceId

(***************************************************************************)
(* Program constants                                                       *)
(***************************************************************************)
GLOBAL_TOKEN_KEY == "GLOBAL"
CREDS_TTL == IF QUICKBOOKS_CREDS_TTL_MS > 0 THEN QUICKBOOKS_CREDS_TTL_MS
             ELSE 10 * 60 * 1000
\* the 30s buffer of the expiry check
ExpiryBufferMs == 30000

\* JavaScript undefined / a field missing from a document
Undefined == "undefined"
\* a request's userId query parameter
UserIds == {"U1", Undefined}
\* the QuickBooks companies an administrator can connect
Realms == {"R1", "R2"}
NoRealm == "none"

VARIABLES
    now,               \* Date.now()
    tokens,            \* QB_TOKEN_COLLECTION: set of documents
    qbCreds,           \* cachedQBClientId, cachedQBClientSecret, credsLoadedAt
    cachedOAuthClient, \* the module-level OAuthClient: its credsKey and token
    secretsCache,      \* secrets.js cache: secret name -> entry
    envCreds,          \* process.env.QUICKBOOKS_CLIENT_ID/_SECRET (0: unset)
    secretStore,       \* credential version held by the secret store
    srvCreds,          \* credential version the OAuth server accepts
    srvGen,            \* token sets issued by the OAuth server so far
    invoices,          \* QB_INVOICE_COLLECTION: set of documents
    customers,         \* QB_HUBSPOT_CUSTOMER_COLLECTION: set of documents
    qbInvoices,        \* QuickBooks: state of each invoice id
    qbCustomers,       \* QuickBooks: customers, in creation order
    proc               \* per request: position and local variables

tokenVars == <<tokens, qbCreds, cachedOAuthClient, secretsCache, envCreds,
               secretStore, srvCreds, srvGen>>
invoiceVars == <<invoices, customers, qbInvoices, qbCustomers>>
vars == <<now, tokenVars, invoiceVars, proc>>

(***************************************************************************)
(* Values                                                                  *)
(***************************************************************************)
\* JavaScript truthiness of a number-or-absent field (0 stands for absent)
Truthy(x) == x # 0

\* a timestamp: a number of ms (Date.now()) or a Date object
NumTime(ms) == [isDate |-> FALSE, ms |-> ms]
DateObj(ms) == [isDate |-> TRUE, ms |-> ms]
\* !createdAt : a Date object is always truthy, the number 0 is not
TruthyTime(t) == t.isDate \/ t.ms # 0

\* oauthClient.token as intuit-oauth holds it (snake_case keys)
NoToken == [access_token |-> 0, refresh_token |-> 0, realmId |-> NoRealm,
            expires_in |-> 0, createdAt |-> 0]

NoDoc == [key |-> "NODOC"]

NoResult == [out |-> "none", status |-> 0, error |-> ""]
Thrown(msg) == [out |-> "throw", status |-> 0, error |-> msg]

\* errors of the OAuth token endpoint
ErrInvalidClient == [status |-> 401, error |-> "invalid_client",
                     message |-> "invalid_client"]
ErrInvalidGrant == [status |-> 400, error |-> "invalid_grant",
                    message |-> "invalid_grant"]
ErrNetwork == [status |-> 0, error |-> "", message |-> "network"]
NoError == [status |-> 0, error |-> "", message |-> ""]

\* a faulty test: every failure of the token endpoint is taken for a
\* rotation of the client credentials
isInvalidClientError_Any(err) == err.status # 0 \/ err.message # ""

isInvalidClientError(err) ==
    /\ err.status = 401
    /\ (err.error = "invalid_client" \/ err.message = "invalid_client")

(***************************************************************************)
(* Token store                                                             *)
(***************************************************************************)
getGlobalTokenDoc ==
    IF \E d \in tokens : d.key = GLOBAL_TOKEN_KEY
    THEN CHOOSE d \in tokens : d.key = GLOBAL_TOKEN_KEY
    ELSE NoDoc

\* a faulty conversion: the snake_case keys are kept, so the document gets
\* no accessToken, refreshToken or expiresIn field
toCamelCase_KeepSnake(tokenObj) ==
    [accessToken |-> 0, refreshToken |-> 0, realmId |-> tokenObj.realmId,
     expiresIn |-> 0, createdAt |-> NumTime(tokenObj.createdAt)]

\* keys converted to camelCase: access_token -> accessToken, ...
toCamelCase(tokenObj) ==
    [accessToken |-> tokenObj.access_token,
     refreshToken |-> tokenObj.refresh_token,
     realmId |-> tokenObj.realmId,
     expiresIn |-> tokenObj.expires_in,
     createdAt |-> NumTime(tokenObj.createdAt)]

\* the payload written by upsertGlobalToken
UpsertPayload(tokenObj) ==
    LET c == toCamelCase(tokenObj) IN
    [key |-> GLOBAL_TOKEN_KEY, accessToken |-> c.accessToken,
     refreshToken |-> c.refreshToken, realmId |-> c.realmId,
     expiresIn |-> c.expiresIn, createdAt |-> c.createdAt]

\* a token document: the payload's fields plus the fields $set leaves alone
TokenDoc(payload, userId) ==
    [key |-> payload.key, userId |-> userId,
     accessToken |-> payload.accessToken,
     refreshToken |-> payload.refreshToken, realmId |-> payload.realmId,
     expiresIn |-> payload.expiresIn, createdAt |-> payload.createdAt]

\* updateOne({key}, {$set: payload}, {upsert: true})
upsertGlobalToken(coll, tokenObj) ==
    LET payload == UpsertPayload(tokenObj)
        old == {d \in coll : d.key = GLOBAL_TOKEN_KEY}
    IN IF old = {}
       THEN coll \cup {TokenDoc(payload, Undefined)}
       ELSE LET d == CHOOSE x \in old : TRUE IN
            (coll \ {d}) \cup {TokenDoc(payload, d.userId)}

computeExpiresAt(createdAt, expiresInSec) ==
    IF ~TruthyTime(createdAt) \/ ~Truthy(expiresInSec)
    THEN 0
    ELSE createdAt.ms + expiresInSec * 1000

\* a faulty expiry test: the 30 s buffer is left out
StillValid_NoBuffer(tokenDoc, t) ==
    LET expiresAt == computeExpiresAt(tokenDoc.createdAt, tokenDoc.expiresIn)
    IN Truthy(expiresAt) /\ t < expiresAt

\* a faulty expiry test: every token is taken as expired
StillValid_Never(tokenDoc, t) == FALSE

\* the expiry test of ensureGlobalTokenFresh
StillValid(tokenDoc, t) ==
    LET expiresAt == computeExpiresAt(tokenDoc.createdAt, tokenDoc.expiresIn)
    IN Truthy(expiresAt) /\ t < expiresAt - ExpiryBufferMs

(***************************************************************************)
(* Credential cache                                                        *)
(***************************************************************************)
SecretNames == {"id", "key"}
NoEntry == [value |-> 0, expiresAt |-> 0]
NoCreds == [cachedQBClientId |-> 0, cachedQBClientSecret |-> 0,
            credsLoadedAt |-> 0]
NoClient == [credsKey |-> 0, token |-> NoToken]

\* secrets.js getSecretCached: the cache after the call
getSecretCached(cache, secretName, ttlMs) ==
    LET hit == cache[secretName] IN
    IF hit.expiresAt > now
    THEN cache
    ELSE [cache EXCEPT ![secretName] =
              [value |-> secretStore, expiresAt |-> now + ttlMs]]

\* ensureQuickBooksCreds: threw, and the two caches after the call
ensureQuickBooksCreds(fetchOk) ==
    IF envCreds # 0
    THEN [threw |-> FALSE, cache |-> secretsCache,
          creds |-> [cachedQBClientId |-> envCreds,
                     cachedQBClientSecret |-> envCreds,
                     credsLoadedAt |-> now]]
    ELSE IF /\ Truthy(qbCreds.cachedQBClientId)
            /\ Truthy(qbCreds.cachedQBClientSecret)
            /\ now - qbCreds.credsLoadedAt < CREDS_TTL
    THEN [threw |-> FALSE, cache |-> secretsCache, creds |-> qbCreds]
    ELSE LET c1 == getSecretCached(secretsCache, "id", CREDS_TTL)
             c2 == getSecretCached(c1, "key", CREDS_TTL)
             needsFetch == c2 # secretsCache
         IN IF needsFetch /\ ~fetchOk
            THEN [threw |-> TRUE, cache |-> secretsCache, creds |-> qbCreds]
            ELSE [threw |-> FALSE, cache |-> c2,
                  creds |-> [cachedQBClientId |-> c2["id"].value,
                             cachedQBClientSecret |-> c2["key"].value,
                             credsLoadedAt |-> now]]

\* getOAuthClient: threw, the caches after the call, whether the
\* module-level client object was replaced by a new one
getOAuthClient(fetchOk) ==
    LET e == ensureQuickBooksCreds(fetchOk)
        missing == ~Truthy(e.creds.cachedQBClientId)
                   \/ ~Truthy(e.creds.cachedQBClientSecret)
        credsKey == e.creds.cachedQBClientSecret
        replaced == cachedOAuthClient.credsKey = 0
                    \/ cachedOAuthClient.credsKey # credsKey
    IN IF e.threw \/ missing
       THEN [threw |-> TRUE, cache |-> e.cache, creds |-> e.creds,
             client |-> cachedOAuthClient, replaced |-> FALSE]
       ELSE [threw |-> FALSE, cache |-> e.cache, creds |-> e.creds,
             client |-> IF replaced
                        THEN [credsKey |-> credsKey, token |-> NoToken]
                        ELSE cachedOAuthClient,
             replaced |-> replaced]

\* what the OAuth token endpoint answers to a client built with credsKey
ServerOutcomes(credsKey) ==
    IF credsKey = srvCreds
    THEN {"ok", "invalid_grant", "network"}
    ELSE {"invalid_client", "network"}

ErrorOf(outcome) ==
    CASE outcome = "invalid_client" -> ErrInvalidClient
      [] outcome = "invalid_grant" -> ErrInvalidGrant
      [] outcome = "network" -> ErrNetwork
      [] OTHER -> NoError

\* the token set the OAuth server issues next, for the company realm
IssuedToken(realm) ==
    [access_token |-> srvGen + 1, refresh_token |-> srvGen + 1,
     realmId |-> realm, expires_in |-> ExpiresInSec, createdAt |-> now]

(***************************************************************************)
(* Requests                                                                *)
(***************************************************************************)
IdleProc ==
    [op |-> "none", pc |-> "idle", ret |-> "done",
     refreshValue |-> 0, oc |-> "none", ownTok |-> NoToken,
     usedKey |-> 0, storeAt |-> 0,
     realm |-> NoRealm, exchanges |-> 0, resets |-> 0,
     firstErr |-> NoError, lastErr |-> NoError,
     nowAt |-> 0, wasExpired |-> FALSE, stored |-> NoDoc, fresh |-> NoDoc,
     hrt |-> NoResult, result |-> NoResult,
     userId |-> Undefined, dealId |-> "none", tokenRead |-> FALSE,
     fetched |-> FALSE,
     amount |-> Undefined, customerId |-> 0, invoiceNumber |-> 0,
     nCreateCustomer |-> 0, nCreateInvoice |-> 0, nRefresh |-> 0,
     authFail |-> "none", dealUpdated |-> FALSE, updateFailed |-> FALSE, inserted |-> FALSE,
     dupKey |-> FALSE, before |-> {}, dbInvoices |-> {}, verified |-> "none",
     validity |-> {}, deleted |-> {}, returned |-> {}]

\* the token of the OAuthClient object request p holds a reference to
ClientToken(p) ==
    IF proc[p].oc = "cached" THEN cachedOAuthClient.token ELSE proc[p].ownTok

Init ==
    /\ now = TickMs
    /\ tokens = {}
    /\ qbCreds = NoCreds
    /\ cachedOAuthClient = NoClient
    /\ secretsCache = [n \in SecretNames |-> NoEntry]
    /\ envCreds \in {0, 1}
    /\ secretStore = 1
    /\ srvCreds = 1
    /\ srvGen = 0
    /\ invoices = {}
    /\ customers = {}
    /\ qbInvoices = [r \in Realms |-> [i \in InvoiceIds |-> "none"]]
    /\ qbCustomers = [r \in Realms |-> 0]
    /\ proc = [p \in Procs |-> IdleProc]

(***************************************************************************)
(* Environment                                                             *)
(***************************************************************************)
Tick ==
    /\ now + TickMs <= MaxTicks * TickMs
    /\ now' = now + TickMs
    /\ UNCHANGED <<tokenVars, invoiceVars, proc>>

\* the client secret is rotated at the OAuth server and in the secret store
RotateCreds ==
    /\ srvCreds < MaxCredsVersion
    /\ srvCreds' = srvCreds + 1
    /\ secretStore' = srvCreds + 1
    /\ UNCHANGED <<invoiceVars, now, tokens, qbCreds, cachedOAuthClient, secretsCache,
                   envCreds, srvGen, proc>>

\* the response has been sent; the slot serves the next request
Respond(p) ==
    /\ proc[p].pc = "done"
    /\ proc' = [proc EXCEPT ![p] = IdleProc]
    /\ UNCHANGED <<invoiceVars, now, tokenVars>>

(***************************************************************************)
(* Errors reaching the catch block of handleCreateInvoice                  *)
(***************************************************************************)
\* new Error(message)
JsError(message) == [statusCode |-> 0, message |-> message]
\* the error object of a failed HubSpot call; it may carry statusCode 401
HubSpotErrors == {[statusCode |-> 401, message |-> "hubspot unauthorized"],
                  [statusCode |-> 0, message |-> "hubspot error"]}
\* the Fault body node-quickbooks hands to the callback: no message field
QboFault == [statusCode |-> 0, message |-> Undefined]

\* a faulty catch block: the error is thrown on to the caller
Catch_Rethrow(me, error) ==
    [me EXCEPT !.pc = "done", !.result = Thrown(error.message)]

Catch(me, error) ==
    IF error.statusCode = 401
    THEN [me EXCEPT !.pc = "hrt_start", !.ret = "ci_catch",
                    !.nRefresh = @ + 1]
    ELSE [me EXCEPT !.pc = "done",
                    !.result = [out |-> "fail", status |-> 500,
                                error |-> error.message]]

NoTokenMsg == "No global QuickBooks token available. Admin must authorize first."
OkResult == [out |-> "ok", status |-> 200, error |-> ""]

(***************************************************************************)
(* How a call ends when its token exchange failed                          *)
(***************************************************************************)
\* the call returns r: to the route, to the catch block of
\* handleCreateInvoice, or to the callback of handleQBOFindCustomers
HrtReturn(me, r) ==
    CASE me.ret = "ci_catch" ->
           [me EXCEPT !.pc = "done", !.hrt = r,
                      !.result = [out |-> "fail", status |-> 503,
                                  error |-> "Token refreshed, please retry"]]
      [] me.ret = "ci_find" ->
           Catch([me EXCEPT !.hrt = r],
                 JsError("Token refreshed, please retry request."))
      [] OTHER -> [me EXCEPT !.pc = "done", !.hrt = r, !.result = r]

\* a failed refreshUsingToken propagates out of getGlobalTokens
GvtFail(me, err) ==
    [me EXCEPT !.pc = "done", !.firstErr = err, !.lastErr = err,
               !.result = Thrown(err.message)]

\* the outer catch: { success: false, status: 500, error: error.message }
HrtFail(me, err) ==
    HrtReturn([me EXCEPT !.firstErr =
                   IF me.firstErr = NoError THEN err ELSE me.firstErr,
                         !.lastErr = err],
              [out |-> "fail", status |-> 500, error |-> err.message])

\* the outer catch of handleCallback
HcbFail(me, err) ==
    [me EXCEPT !.pc = "done",
               !.firstErr = IF me.firstErr = NoError THEN err
                            ELSE me.firstErr,
               !.lastErr = err,
               !.result = [out |-> "fail", status |-> 500,
                           error |-> "Failed to connect to QuickBooks"]]

\* the failure handling of the function the exchange is part of
ExchangeFailed(fn, me, err) ==
    CASE fn = "getGlobalTokens" -> GvtFail(me, err)
      [] fn = "handleRefreshToken" -> HrtFail(me, err)
      [] OTHER -> HcbFail(me, err)

(***************************************************************************)
(* One token exchange by request p: getOAuthClient(), then the request to  *)
(* the token endpoint.  okPc: where p continues after a successful         *)
(* exchange; retryPc: where it continues after resetQbCredsCache() when    *)
(* the handler retries an invalid_client failure ("" when it does not);    *)
(* fn: the function the exchange is part of.                               *)
(***************************************************************************)
MissingCredsErr == [status |-> 0, error |-> "",
                    message |-> "Missing QuickBooks client credentials"]

Exchange(p, me, fetchOk, outcome, okPc, retryPc, fn) ==
    LET g == getOAuthClient(fetchOk)
        err == ErrorOf(outcome)
        doReset == retryPc # "" /\ isInvalidClientError(err)
        \* usedKey: the client secret the request is sent with; storeAt: the
        \* secret the secret store holds at that moment
        mine == [me EXCEPT !.oc = "cached", !.exchanges = @ + 1,
                           !.usedKey = g.client.credsKey,
                           !.storeAt = secretStore]
        \* references held by the other requests once the module-level
        \* client object has been replaced or dropped
        others == [q \in Procs |->
                     IF q # p /\ (g.replaced \/ doReset)
                     THEN (IF proc[q].oc = "cached"
                           THEN [proc[q] EXCEPT !.oc = "own",
                                     !.ownTok = cachedOAuthClient.token]
                           ELSE proc[q])
                     ELSE proc[q]]
    IN
    /\ IF g.threw
       THEN /\ qbCreds' = g.creds
            /\ secretsCache' = g.cache
            /\ cachedOAuthClient' = cachedOAuthClient
            /\ srvGen' = srvGen
            /\ outcome = "network"
            /\ proc' = [proc EXCEPT ![p] = ExchangeFailed(fn, me, MissingCredsErr)]
       ELSE /\ outcome \in ServerOutcomes(g.client.credsKey)
            /\ outcome = "ok" => srvGen < MaxTokenGen
            /\ secretsCache' = g.cache
            /\ CASE outcome = "ok" ->
                      /\ qbCreds' = g.creds
                      /\ cachedOAuthClient' =
                             [g.client EXCEPT !.token = IssuedToken(me.realm)]
                      /\ srvGen' = srvGen + 1
                      /\ proc' = [others EXCEPT ![p] =
                                     [mine EXCEPT !.pc = okPc]]
                 [] doReset ->
                      \* resetQbCredsCache()
                      /\ qbCreds' = NoCreds
                      /\ cachedOAuthClient' = NoClient
                      /\ srvGen' = srvGen
                      /\ proc' = [others EXCEPT ![p] =
                                     [mine EXCEPT !.pc = retryPc,
                                                  !.oc = "own",
                                                  !.ownTok = g.client.token,
                                                  !.resets = @ + 1,
                                                  !.firstErr = err]]
                 [] OTHER ->
                      /\ qbCreds' = g.creds
                      /\ cachedOAuthClient' = g.client
                      /\ srvGen' = srvGen
                      /\ proc' = [others EXCEPT ![p] = ExchangeFailed(fn, mine, err)]
    /\ UNCHANGED <<invoiceVars, now, tokens, envCreds, secretStore, srvCreds>>

RefreshOutcomes == {"ok", "invalid_client", "invalid_grant", "network"}

(***************************************************************************)
(* getGlobalTokens -> ensureGlobalTokenFresh                               *)
(***************************************************************************)
GetGlobalTokens_Start(p) ==
    /\ proc[p].pc = "idle"
    /\ LET tokenDoc == getGlobalTokenDoc
           me == [proc[p] EXCEPT !.op = "getGlobalTokens", !.nowAt = now,
                                 !.stored = tokenDoc,
                                 !.realm = IF tokenDoc = NoDoc THEN NoRealm
                                           ELSE tokenDoc.realmId]
       IN
       IF tokenDoc = NoDoc
       THEN proc' = [proc EXCEPT ![p] =
                [me EXCEPT !.pc = "done", !.result = Thrown(NoTokenMsg)]]
       ELSE IF ~Truthy(tokenDoc.accessToken) \/ ~Truthy(tokenDoc.refreshToken)
       THEN proc' = [proc EXCEPT ![p] =
                [me EXCEPT !.pc = "done", !.result = Thrown(NoTokenMsg)]]
       ELSE IF StillValid(tokenDoc, now)
       THEN proc' = [proc EXCEPT ![p] =
                [me EXCEPT !.pc = "done", !.fresh = tokenDoc,
                           !.result = OkResult]]
       ELSE proc' = [proc EXCEPT ![p] =
                [me EXCEPT !.pc = "gvt_exchange", !.wasExpired = TRUE,
                           !.refreshValue = tokenDoc.refreshToken]]
    /\ UNCHANGED <<invoiceVars, now, tokenVars>>

\* the exchange of ensureGlobalTokenFresh as it would be under a lock held
\* from the read of the document to its write
GetGlobalTokens_Exchange_Locked(p) ==
    /\ proc[p].pc = "gvt_exchange"
    /\ \A q \in Procs \ {p} :
         proc[q].pc \notin {"gvt_save", "hrt_save", "gvt_exchange",
                            "hrt_exchange"}
    /\ \E fetchOk \in BOOLEAN, outcome \in RefreshOutcomes :
          Exchange(p, proc[p], fetchOk, outcome, "gvt_save", "", "getGlobalTokens")

GetGlobalTokens_Exchange(p) ==
    /\ proc[p].pc = "gvt_exchange"
    /\ \E fetchOk \in BOOLEAN, outcome \in RefreshOutcomes :
          Exchange(p, proc[p], fetchOk, outcome, "gvt_save", "", "getGlobalTokens")

GetGlobalTokens_Save(p) ==
    /\ proc[p].pc = "gvt_save"
    /\ LET tok == ClientToken(p)
           saved == UpsertPayload(tok)
       IN /\ tokens' = upsertGlobalToken(tokens, tok)
          /\ proc' = [proc EXCEPT ![p] =
                 [@ EXCEPT !.pc = "done", !.fresh = saved,
                           !.result = OkResult]]
    /\ UNCHANGED <<invoiceVars, now, qbCreds, cachedOAuthClient, secretsCache, envCreds,
                   secretStore, srvCreds, srvGen>>

(***************************************************************************)
(* handleRefreshToken, called by the /refresh-token route, by              *)
(* invalidateGlobalToken("refreshNow") and by the invoice workflow         *)
(***************************************************************************)
HrtRead(p, me) ==
    /\ LET tokenDoc == getGlobalTokenDoc
           m == [me EXCEPT !.exchanges = 0, !.resets = 0,
                           !.stored = tokenDoc,
                           !.firstErr = NoError, !.lastErr = NoError]
       IN IF tokenDoc = NoDoc
          THEN proc' = [proc EXCEPT ![p] = HrtReturn(m,
                   [out |-> "fail", status |-> 404,
                    error |-> "No global refresh token found"])]
          ELSE IF ~Truthy(tokenDoc.refreshToken)
          THEN proc' = [proc EXCEPT ![p] = HrtReturn(m,
                   [out |-> "fail", status |-> 404,
                    error |-> "No global refresh token found"])]
          ELSE proc' = [proc EXCEPT ![p] =
                   [m EXCEPT !.pc = "hrt_exchange",
                             !.realm = tokenDoc.realmId,
                             !.refreshValue = tokenDoc.refreshToken]]
    /\ UNCHANGED <<invoiceVars, now, tokenVars>>

\* GET /quickbooks/refresh-token
HandleRefreshToken_Start(p) ==
    /\ proc[p].pc = "idle"
    /\ HrtRead(p, [proc[p] EXCEPT !.op = "handleRefreshToken",
                                  !.ret = "done"])

\* handleRefreshToken entered from another handler
HandleRefreshToken_Nested(p) ==
    /\ proc[p].pc = "hrt_start"
    /\ HrtRead(p, proc[p])

HandleRefreshToken_Exchange(p) ==
    /\ proc[p].pc = "hrt_exchange"
    /\ \E fetchOk \in BOOLEAN, outcome \in RefreshOutcomes :
          Exchange(p, proc[p], fetchOk, outcome, "hrt_save", "hrt_retry", "handleRefreshToken")

\* a faulty retry: another invalid_client failure resets and retries again
HandleRefreshToken_RetryAgain(p) ==
    /\ proc[p].pc = "hrt_retry"
    /\ \E fetchOk \in BOOLEAN, outcome \in RefreshOutcomes :
          Exchange(p, proc[p], fetchOk, outcome, "hrt_save", "hrt_retry",
                   "handleRefreshToken")

HandleRefreshToken_Retry(p) ==
    /\ proc[p].pc = "hrt_retry"
    /\ \E fetchOk \in BOOLEAN, outcome \in RefreshOutcomes :
          Exchange(p, proc[p], fetchOk, outcome, "hrt_save", "", "handleRefreshToken")

HandleRefreshToken_Save(p) ==
    /\ proc[p].pc = "hrt_save"
    /\ tokens' = upsertGlobalToken(tokens, ClientToken(p))
    /\ proc' = [proc EXCEPT ![p] =
           HrtReturn(proc[p], [out |-> "ok", status |-> 200, error |-> ""])]
    /\ UNCHANGED <<invoiceVars, now, qbCreds, cachedOAuthClient, secretsCache, envCreds,
                   secretStore, srvCreds, srvGen>>

(***************************************************************************)
(* handleCallback                                                          *)
(***************************************************************************)
\* realm: the company the administrator authorized, as the redirect URL
\* names it
HandleCallback_CreateToken(p, realm) ==
    /\ proc[p].pc = "idle"
    /\ \E fetchOk \in BOOLEAN, outcome \in RefreshOutcomes :
          Exchange(p, [proc[p] EXCEPT !.op = "handleCallback",
                                      !.stored = getGlobalTokenDoc,
                                      !.realm = realm],
                   fetchOk, outcome, "hcb_save", "hcb_retry", "handleCallback")

HandleCallback_Retry(p) ==
    /\ proc[p].pc = "hcb_retry"
    /\ \E fetchOk \in BOOLEAN, outcome \in RefreshOutcomes :
          Exchange(p, proc[p], fetchOk, outcome, "hcb_save", "", "handleCallback")

\* a faulty store: the token collection has no unique index
DuplicateUserId_NoIndex(coll, doc) == FALSE

\* the unique index { userId: 1 } of the token collection; a document
\* without the field is indexed under null
DuplicateUserId(coll, doc) == \E d \in coll : d.userId = doc.userId

\* upsertGlobalToken(db, oauthClient.token): the update when a document
\* matches { key }; when none matches, the store goes on to insert one
HandleCallback_Save(p) ==
    /\ proc[p].pc = "hcb_save"
    /\ LET tok == ClientToken(p) IN
       IF tok = NoToken
       THEN /\ tokens' = tokens
            /\ proc' = [proc EXCEPT ![p] =
                   [@ EXCEPT !.pc = "done",
                             !.result = [out |-> "fail", status |-> 500,
                                 error |-> "Failed to create OAuth token"]]]
       ELSE IF getGlobalTokenDoc = NoDoc
       THEN /\ tokens' = tokens
            /\ proc' = [proc EXCEPT ![p] = [@ EXCEPT !.pc = "hcb_insert"]]
       ELSE /\ tokens' = upsertGlobalToken(tokens, tok)
            /\ proc' = [proc EXCEPT ![p] =
                   [@ EXCEPT !.pc = "done", !.result = OkResult]]
    /\ UNCHANGED <<invoiceVars, now, qbCreds, cachedOAuthClient, secretsCache, envCreds,
                   secretStore, srvCreds, srvGen>>

\* the insert of the upsert; a duplicate key error reaches the outer catch
HandleCallback_Insert(p) ==
    /\ proc[p].pc = "hcb_insert"
    /\ LET doc == TokenDoc(UpsertPayload(ClientToken(p)), Undefined) IN
       IF DuplicateUserId(tokens, doc)
       THEN /\ tokens' = tokens
            /\ proc' = [proc EXCEPT ![p] =
                   [@ EXCEPT !.pc = "done", !.dupKey = TRUE,
                             !.result = [out |-> "fail", status |-> 500,
                                 error |-> "Failed to connect to QuickBooks"]]]
       ELSE /\ tokens' = tokens \cup {doc}
            /\ proc' = [proc EXCEPT ![p] =
                   [@ EXCEPT !.pc = "done", !.result = OkResult]]
    /\ UNCHANGED <<invoiceVars, now, qbCreds, cachedOAuthClient, secretsCache, envCreds,
                   secretStore, srvCreds, srvGen>>

(***************************************************************************)
(* invalidateGlobalToken(mode)                                             *)
(***************************************************************************)
Modes == {"expire", "refreshNow", "revoke"}

\* a faulty revoke: the refresh token is left in the document
Revoked_AccessOnly(d) == [d EXCEPT !.accessToken = 0]

\* $unset accessToken, refreshToken
Revoked(d) == [d EXCEPT !.accessToken = 0, !.refreshToken = 0]
\* a faulty expire: the document is left as it is
Expired_Noop(d) == d

\* a faulty expire: the tokens are removed as well
Expired_Strip(d) ==
    [d EXCEPT !.accessToken = 0, !.refreshToken = 0,
              !.createdAt = DateObj(0), !.expiresIn = 0]

\* $set createdAt: new Date(0), expiresIn: 0
Expired(d) == [d EXCEPT !.createdAt = DateObj(0), !.expiresIn = 0]

InvalidateGlobalToken(p, mode) ==
    /\ proc[p].pc = "idle"
    /\ LET tokenDoc == getGlobalTokenDoc
           me == [proc[p] EXCEPT !.op = "invalidate_" \o mode,
                                 !.stored = tokenDoc]
       IN
       IF tokenDoc = NoDoc
       THEN /\ tokens' = tokens
            /\ proc' = [proc EXCEPT ![p] =
                   [me EXCEPT !.pc = "done",
                              !.result = [out |-> "fail", status |-> 404,
                                          error |-> "No global token found"]]]
       ELSE CASE mode = "refreshNow" ->
                 /\ tokens' = tokens
                 /\ proc' = [proc EXCEPT ![p] =
                        [me EXCEPT !.pc = "hrt_start", !.ret = "done"]]
              [] mode = "revoke" ->
                 /\ tokens' = (tokens \ {tokenDoc}) \cup {Revoked(tokenDoc)}
                 /\ proc' = [proc EXCEPT ![p] =
                        [me EXCEPT !.pc = "done", !.result = OkResult]]
              [] OTHER ->
                 /\ tokens' = (tokens \ {tokenDoc}) \cup {Expired(tokenDoc)}
                 /\ proc' = [proc EXCEPT ![p] =
                        [me EXCEPT !.pc = "done", !.result = OkResult]]
    /\ UNCHANGED <<invoiceVars, now, qbCreds, cachedOAuthClient, secretsCache, envCreds,
                   secretStore, srvCreds, srvGen>>

(***************************************************************************)
(* handleCreateInvoice                                                     *)
(***************************************************************************)
\* tokens.findOne({ userId }): a query for undefined matches the documents
\* without the field
FindTokenByUser(userId) ==
    IF \E d \in tokens : d.userId = userId
    THEN CHOOSE d \in tokens : d.userId = userId
    ELSE NoDoc

NotConnected == [out |-> "fail", status |-> 400,
                 error |-> "QuickBooks not connected"]
MissingTokens == [out |-> "fail", status |-> 400,
                  error |-> "Missing QuickBooks tokens"]

\* a faulty token check: the fields of the document are not looked at
TokenCheck_NoFields(tokenDoc) ==
    IF tokenDoc = NoDoc THEN NotConnected ELSE OkResult

\* the result of the token check both handlers start with
TokenCheck(tokenDoc) ==
    IF tokenDoc = NoDoc THEN NotConnected
    ELSE IF \/ ~Truthy(tokenDoc.accessToken)
            \/ ~Truthy(tokenDoc.refreshToken)
            \/ tokenDoc.realmId = NoRealm
    THEN MissingTokens
    ELSE OkResult

\* deal.amount as HubSpot returns it: a string, or the property is missing
Amounts == {"250", "0", "-5", "abc", "", Undefined}

\* a JavaScript number: NaN or an integer
NaN == [nan |-> TRUE, v |-> 0]
Num(v) == [nan |-> FALSE, v |-> v]
isFinite(n) == ~n.nan

\* Number(x): the empty string converts to 0
Number(x) ==
    CASE x = "250" -> Num(250)
      [] x = "0" -> Num(0)
      [] x = "-5" -> Num(0 - 5)
      [] x = "" -> Num(0)
      [] OTHER -> NaN

\* parseFloat(x): the empty string does not parse
parseFloat(x) ==
    CASE x = "250" -> Num(250)
      [] x = "0" -> Num(0)
      [] x = "-5" -> Num(0 - 5)
      [] OTHER -> NaN

\* createInvoice: "Validate and normalize amount"
NormalizedAmount(dealAmount) ==
    IF isFinite(Number(dealAmount)) THEN parseFloat(dealAmount) ELSE NaN

InvalidAmount(dealAmount) ==
    LET amount == NormalizedAmount(dealAmount)
    IN ~isFinite(amount) \/ amount.v <= 0

InvalidAmountMsg(dealAmount) ==
    "Invalid deal amount for invoice. Received: \"" \o dealAmount \o "\""

HandleCreateInvoice_Start(p, dealId) ==
    /\ proc[p].pc = "idle"
    /\ \E userId \in UserIds :
         LET tokenDoc == FindTokenByUser(userId)
             me == [proc[p] EXCEPT !.op = "handleCreateInvoice",
                                   !.userId = userId, !.dealId = dealId,
                                   !.nowAt = now, !.stored = tokenDoc,
                                   !.tokenRead = TRUE,
                                   !.before = invoices]
         IN IF TokenCheck(tokenDoc) # OkResult
            THEN proc' = [proc EXCEPT ![p] =
                     [me EXCEPT !.pc = "done",
                                !.result = TokenCheck(tokenDoc)]]
            ELSE proc' = [proc EXCEPT ![p] =
                     [me EXCEPT !.pc = "ci_hubspot",
                                !.realm = tokenDoc.realmId]]
    /\ UNCHANGED <<invoiceVars, now, tokenVars>>

\* hubspotService.getHubSpotData(dealId, contactId)
HandleCreateInvoice_GetHubSpotData(p) ==
    /\ proc[p].pc = "ci_hubspot"
    /\ \/ \E amount \in Amounts :
            proc' = [proc EXCEPT ![p] =
                [@ EXCEPT !.pc = "ci_find", !.fetched = TRUE,
                          !.amount = amount]]
       \/ \E error \in HubSpotErrors :
            proc' = [proc EXCEPT ![p] = Catch(proc[p], error)]
    /\ UNCHANGED <<invoiceVars, now, tokenVars>>

\* how a call to the QuickBooks API ends: with data, with the
\* AuthenticationFailed fault (code 3200), with another fault
QboOutcomes == {"ok", "3200", "fault"}

\* a faulty resolution: the customer found by email is not reused
GetOrCreateCustomer_Find_AlwaysCreate(p) ==
    /\ proc[p].pc = "ci_find"
    /\ \E fetchOk \in BOOLEAN, outcome \in QboOutcomes :
         LET e == ensureQuickBooksCreds(fetchOk)
             me == proc[p]
         IN /\ qbCreds' = e.creds
            /\ secretsCache' = e.cache
            /\ IF e.threw
               THEN /\ outcome = "fault"
                    /\ proc' = [proc EXCEPT ![p] =
                           Catch(me, JsError("secret fetch failed"))]
               ELSE CASE outcome = "ok" ->
                           proc' = [proc EXCEPT ![p] =
                             [me EXCEPT !.pc = "ci_newcustomer"]]
                      [] outcome = "3200" ->
                           proc' = [proc EXCEPT ![p] =
                             [me EXCEPT !.pc = "hrt_start",
                                        !.ret = "ci_find",
                                        !.authFail = "findCustomers",
                                        !.nRefresh = @ + 1]]
                      [] OTHER ->
                           proc' = [proc EXCEPT ![p] = Catch(me, QboFault)]
    /\ UNCHANGED <<invoiceVars, now, tokens, cachedOAuthClient, envCreds,
                   secretStore, srvCreds, srvGen>>

\* getOrCreateCustomer: ensureQuickBooksCreds(), handleQBOFindCustomers
GetOrCreateCustomer_Find(p) ==
    /\ proc[p].pc = "ci_find"
    /\ \E fetchOk \in BOOLEAN, outcome \in QboOutcomes :
         LET e == ensureQuickBooksCreds(fetchOk)
             me == proc[p]
         IN /\ qbCreds' = e.creds
            /\ secretsCache' = e.cache
            /\ IF e.threw
               THEN /\ outcome = "fault"
                    /\ proc' = [proc EXCEPT ![p] =
                           Catch(me, JsError("secret fetch failed"))]
               ELSE CASE outcome = "ok" ->
                           proc' = [proc EXCEPT ![p] =
                             IF qbCustomers[me.realm] > 0
                             THEN [me EXCEPT !.pc = "ci_save",
                                             !.customerId = 1]
                             ELSE [me EXCEPT !.pc = "ci_newcustomer"]]
                      [] outcome = "3200" ->
                           proc' = [proc EXCEPT ![p] =
                             [me EXCEPT !.pc = "hrt_start",
                                        !.ret = "ci_find",
                                        !.authFail = "findCustomers",
                                        !.nRefresh = @ + 1]]
                      [] OTHER ->
                           proc' = [proc EXCEPT ![p] = Catch(me, QboFault)]
    /\ UNCHANGED <<invoiceVars, now, tokens, cachedOAuthClient, envCreds,
                   secretStore, srvCreds, srvGen>>

\* getOrCreateCustomer: qbo.createCustomer
GetOrCreateCustomer_Create(p) ==
    /\ proc[p].pc = "ci_newcustomer"
    /\ \E outcome \in QboOutcomes :
         LET me == [proc[p] EXCEPT !.nCreateCustomer = @ + 1]
             realm == me.realm
         IN CASE outcome = "ok" ->
                   /\ qbCustomers[realm] < MaxCustomers
                   /\ qbCustomers' = [qbCustomers EXCEPT ![realm] = @ + 1]
                   /\ proc' = [proc EXCEPT ![p] =
                          [me EXCEPT !.pc = "ci_save",
                                     !.customerId = qbCustomers[realm] + 1]]
              [] outcome = "3200" ->
                   /\ qbCustomers' = qbCustomers
                   /\ proc' = [proc EXCEPT ![p] =
                          Catch([me EXCEPT !.authFail = "createCustomer"],
                                QboFault)]
              [] OTHER ->
                   /\ qbCustomers' = qbCustomers
                   /\ proc' = [proc EXCEPT ![p] = Catch(me, QboFault)]
    /\ UNCHANGED <<now, tokenVars, invoices, customers, qbInvoices>>

\* an id and the system that issued it
HubSpotContactId(n) == [of |-> "hubspot contact", id |-> n]
QboCustomerId(n) == [of |-> "quickbooks customer", id |-> n]
NoId == [of |-> "none", id |-> 0]

\* the contact every request names: contact.hs_object_id
Contact == HubSpotContactId(1)

\* toCamelCase of the customer object QuickBooks returned: its key "Id"
\* becomes "id"; the object has no contactId key
CustomerDoc(customerId) ==
    [contactId |-> NoId, Id |-> NoId, id |-> QboCustomerId(customerId)]

\* customerDoc.contactId || customerDoc.Id || customerId, and only when all
\* three are missing contact.contact_id || contact.id
MappingContactId(customerDoc, customerId, contact) ==
    IF customerDoc.contactId # NoId THEN customerDoc.contactId
    ELSE IF customerDoc.Id # NoId THEN customerDoc.Id
    ELSE IF customerId # 0 THEN QboCustomerId(customerId)
    ELSE contact

\* getOrCreateCustomer: customers.updateOne({ contactId }, { $set }, upsert)
GetOrCreateCustomer_Save(p) ==
    /\ proc[p].pc = "ci_save"
    /\ LET contactId == MappingContactId(CustomerDoc(proc[p].customerId),
                                         proc[p].customerId, Contact)
           customerDoc == [contactId |-> contactId, id |-> proc[p].customerId]
       IN customers' = {c \in customers : c.contactId # contactId}
                          \cup {customerDoc}
    /\ proc' = [proc EXCEPT ![p] = [@ EXCEPT !.pc = "ci_item"]]
    /\ UNCHANGED <<now, tokenVars, invoices, qbInvoices,
                   qbCustomers>>

\* createInvoice: ensureQuickBooksCreds(), getFirstItemId, then the amount
\* is validated
CreateInvoice_Item(p) ==
    /\ proc[p].pc = "ci_item"
    /\ \E fetchOk \in BOOLEAN, outcome \in QboOutcomes \cup {"noitems"} :
         LET e == ensureQuickBooksCreds(fetchOk)
             me == proc[p]
         IN /\ qbCreds' = e.creds
            /\ secretsCache' = e.cache
            /\ IF e.threw
               THEN /\ outcome = "fault"
                    /\ proc' = [proc EXCEPT ![p] =
                           Catch(me, JsError("secret fetch failed"))]
               ELSE CASE outcome = "ok" ->
                           proc' = [proc EXCEPT ![p] =
                             IF InvalidAmount(me.amount)
                             THEN Catch(me,
                                    JsError(InvalidAmountMsg(me.amount)))
                             ELSE [me EXCEPT !.pc = "ci_taxterm"]]
                      [] outcome = "3200" ->
                           proc' = [proc EXCEPT ![p] =
                             Catch([me EXCEPT !.authFail = "findItems"],
                                   QboFault)]
                      [] outcome = "noitems" ->
                           proc' = [proc EXCEPT ![p] = Catch(me,
                             JsError("No items found in QuickBooks account."))]
                      [] OTHER ->
                           proc' = [proc EXCEPT ![p] = Catch(me, QboFault)]
    /\ UNCHANGED <<invoiceVars, now, tokens, cachedOAuthClient, envCreds,
                   secretStore, srvCreds, srvGen>>

\* createInvoice: getPreferredTaxCodeId and getTermIdByName; their failures
\* are logged and the invoice is composed without them
CreateInvoice_TaxTerm(p) ==
    /\ proc[p].pc = "ci_taxterm"
    /\ \E outcome \in QboOutcomes :
         proc' = [proc EXCEPT ![p] =
             [@ EXCEPT !.pc = "ci_create",
                       !.authFail = IF outcome = "3200" THEN "taxTerm"
                                    ELSE @]]
    /\ UNCHANGED <<invoiceVars, now, tokenVars>>

\* the Id QuickBooks gives the next invoice of a company (0: none left)
NextInvoiceId(realm) ==
    IF \E i \in InvoiceIds : qbInvoices[realm][i] = "none"
    THEN CHOOSE i \in InvoiceIds :
           /\ qbInvoices[realm][i] = "none"
           /\ \A j \in InvoiceIds : qbInvoices[realm][j] = "none" => i <= j
    ELSE 0

\* createInvoice: qbo.createInvoice; a failure is rejected as
\* new Error(info.message || ...)
CreateInvoice_Create(p) ==
    /\ proc[p].pc = "ci_create"
    /\ \E outcome \in QboOutcomes :
         LET me == [proc[p] EXCEPT !.nCreateInvoice = @ + 1]
             realm == me.realm
             invoiceId == NextInvoiceId(realm)
         IN CASE outcome = "ok" ->
                   /\ invoiceId # 0
                   /\ qbInvoices' = [qbInvoices EXCEPT
                                        ![realm][invoiceId] = "active"]
                   /\ proc' = [proc EXCEPT ![p] =
                          [me EXCEPT !.pc = "ci_update",
                                     !.invoiceNumber = invoiceId]]
              [] outcome = "3200" ->
                   /\ qbInvoices' = qbInvoices
                   /\ proc' = [proc EXCEPT ![p] =
                          Catch([me EXCEPT !.authFail = "createInvoice"],
                                JsError("AuthenticationFailed"))]
              [] OTHER ->
                   /\ qbInvoices' = qbInvoices
                   /\ proc' = [proc EXCEPT ![p] =
                          Catch(me, JsError("QuickBooks createInvoice failed"))]
    /\ UNCHANGED <<now, tokenVars, invoices, customers, qbCustomers>>

\* a faulty write-back: its failure is swallowed and the record is inserted
HandleCreateInvoice_UpdateDeal_Swallow(p) ==
    /\ proc[p].pc = "ci_update"
    /\ \/ proc' = [proc EXCEPT ![p] =
                [@ EXCEPT !.pc = "ci_insert", !.dealUpdated = TRUE]]
       \/ proc' = [proc EXCEPT ![p] =
                [@ EXCEPT !.pc = "ci_insert", !.updateFailed = TRUE]]
    /\ UNCHANGED <<invoiceVars, now, tokenVars>>

\* hubspotService.updateHubSpotDeal(dealId, invoiceNumber, invoiceUrl)
HandleCreateInvoice_UpdateDeal(p) ==
    /\ proc[p].pc = "ci_update"
    /\ \/ proc' = [proc EXCEPT ![p] =
                [@ EXCEPT !.pc = "ci_insert", !.dealUpdated = TRUE]]
       \/ \E error \in HubSpotErrors :
            proc' = [proc EXCEPT ![p] =
                Catch([proc[p] EXCEPT !.updateFailed = TRUE], error)]
    /\ UNCHANGED <<invoiceVars, now, tokenVars>>

\* the _id the store gives a new document: no two inserts get the same one.
\* An invoice of a company is inserted at most once, so the pair names the
\* insert.
ObjectId(realm, invoiceNumber) == <<realm, invoiceNumber>>

\* a faulty store: the collection has no unique index
DuplicateKey_NoIndex(coll, doc) == FALSE

\* the unique index { invoiceId: 1 } of the invoice collection
DuplicateKey(coll, doc) == \E d \in coll : d.invoiceId = doc.invoiceId

\* invoices.insertOne(invoiceDoc) with invoiceId: invoiceNumber
HandleCreateInvoice_Insert(p) ==
    /\ proc[p].pc = "ci_insert"
    /\ LET me == [proc[p] EXCEPT !.before = invoices]
           invoiceDoc == [_id |-> ObjectId(me.realm, me.invoiceNumber),
                          dealId |-> me.dealId,
                          invoiceNumber |-> me.invoiceNumber,
                          invoiceId |-> me.invoiceNumber]
       IN IF DuplicateKey(invoices, invoiceDoc)
          THEN /\ invoices' = invoices
               /\ proc' = [proc EXCEPT ![p] =
                      Catch([me EXCEPT !.dupKey = TRUE],
                            JsError("E11000 duplicate key error"))]
          ELSE /\ invoices' = invoices \cup {invoiceDoc}
               /\ proc' = [proc EXCEPT ![p] =
                      [me EXCEPT !.pc = "done", !.inserted = TRUE,
                                 !.result = OkResult]]
    /\ UNCHANGED <<now, tokenVars, customers, qbInvoices,
                   qbCustomers>>

(***************************************************************************)
(* getInvoicesForDeal                                                      *)
(***************************************************************************)
\* inv.invoiceNumber || inv.invoiceId
InvoiceKey(inv) ==
    IF Truthy(inv.invoiceNumber) THEN inv.invoiceNumber ELSE inv.invoiceId

\* verifyInvoicesInQuickBooks, the result built of a response: the
\* requested ids the response holds with a Status other than "Deleted"; a
\* response without QueryResponse.Invoice holds none
VerifiedOf(foundInvoices, invoiceIds) ==
    {id \in invoiceIds : id \in foundInvoices}

\* the query answered with the invoices of the company
Verified(realm, invoiceIds) ==
    VerifiedOf({id \in InvoiceIds : qbInvoices[realm][id] = "active"},
               invoiceIds)

\* a faulty fallback: a failed query marks no id valid
VerifyFailed_NoneValid(invoiceIds) == {}

\* verifyInvoicesInQuickBooks, the query failed: every id is marked valid
VerifyFailed(invoiceIds) == invoiceIds

\* a faulty selection: every record read is selected for deletion
DeletedInvoices_All(dbInvoices, validity) == dbInvoices

\* the records whose key the validity map holds as false
DeletedInvoices(dbInvoices, validity) ==
    {inv \in dbInvoices : InvoiceKey(inv) \notin validity}

\* the records returned: those flagged isValidInQuickBooks
InvoicesWithValidity(dbInvoices, validity) ==
    {inv \in dbInvoices : InvoiceKey(inv) \in validity}

\* a faulty start: the token is read and checked before the records of the
\* deal are looked at
GetInvoicesForDeal_Start_TokenFirst(p, dealId) ==
    /\ proc[p].pc = "idle"
    /\ \E userId \in UserIds :
         LET dbInvoices == {inv \in invoices : inv.dealId = dealId}
             tokenDoc == FindTokenByUser(userId)
             me == [proc[p] EXCEPT !.op = "getInvoicesForDeal",
                                   !.userId = userId, !.dealId = dealId,
                                   !.before = invoices,
                                   !.tokenRead = TRUE,
                                   !.dbInvoices = dbInvoices]
         IN IF TokenCheck(tokenDoc) # OkResult
            THEN proc' = [proc EXCEPT ![p] =
                     [me EXCEPT !.pc = "done",
                                !.result = TokenCheck(tokenDoc)]]
            ELSE IF dbInvoices = {}
            THEN proc' = [proc EXCEPT ![p] =
                     [me EXCEPT !.pc = "done", !.result = OkResult]]
            ELSE proc' = [proc EXCEPT ![p] =
                     [me EXCEPT !.pc = "li_verify",
                                !.realm = tokenDoc.realmId]]
    /\ UNCHANGED <<invoiceVars, now, tokenVars>>

\* invoices.find({ dealId }), tokens.findOne({ userId })
GetInvoicesForDeal_Start(p, dealId) ==
    /\ proc[p].pc = "idle"
    /\ \E userId \in UserIds :
         LET dbInvoices == {inv \in invoices : inv.dealId = dealId}
             tokenDoc == FindTokenByUser(userId)
             me == [proc[p] EXCEPT !.op = "getInvoicesForDeal",
                                   !.userId = userId, !.dealId = dealId,
                                   !.before = invoices,
                                   !.dbInvoices = dbInvoices]
             read == [me EXCEPT !.tokenRead = TRUE, !.stored = tokenDoc]
         IN IF dbInvoices = {}
            THEN proc' = [proc EXCEPT ![p] =
                     [me EXCEPT !.pc = "done", !.result = OkResult]]
            ELSE IF TokenCheck(tokenDoc) # OkResult
            THEN proc' = [proc EXCEPT ![p] =
                     [read EXCEPT !.pc = "done",
                                  !.result = TokenCheck(tokenDoc)]]
            ELSE proc' = [proc EXCEPT ![p] =
                     [read EXCEPT !.pc = "li_verify",
                                  !.realm = tokenDoc.realmId]]
    /\ UNCHANGED <<invoiceVars, now, tokenVars>>

\* verifyInvoicesInQuickBooks: ensureQuickBooksCreds(), then the batch query
GetInvoicesForDeal_Verify(p) ==
    /\ proc[p].pc = "li_verify"
    /\ \E fetchOk \in BOOLEAN, outcome \in QboOutcomes \cup {"empty"} :
         LET e == ensureQuickBooksCreds(fetchOk)
             me == proc[p]
             invoiceIds == {InvoiceKey(inv) : inv \in me.dbInvoices}
             validity == CASE outcome = "ok" ->
                                Verified(me.realm, invoiceIds)
                           [] outcome = "empty" -> VerifiedOf({}, invoiceIds)
                           [] OTHER -> VerifyFailed(invoiceIds)
             deleted == DeletedInvoices(me.dbInvoices, validity)
             \* QuickBooks leaves the invoices its users deleted out of a
             \* query's answer, or holds them with Status "Deleted"
             answered == outcome = "empty" =>
                           \A id \in invoiceIds :
                             qbInvoices[me.realm][id] # "active"
             m == [me EXCEPT !.validity = validity,
                             !.verified = CASE outcome = "ok" -> "ok"
                                            [] outcome = "empty" -> "empty"
                                            [] OTHER -> "threw",
                             !.authFail = IF outcome = "3200"
                                          THEN "query" ELSE @]
         IN /\ answered
            /\ qbCreds' = e.creds
            /\ secretsCache' = e.cache
            /\ IF e.threw
               THEN /\ outcome = "fault"
                    /\ proc' = [proc EXCEPT ![p] =
                           [me EXCEPT !.pc = "done",
                                 !.result = [out |-> "fail", status |-> 500,
                                             error |-> "secret fetch failed"]]]
               ELSE IF deleted = {}
               THEN proc' = [proc EXCEPT ![p] =
                        [m EXCEPT !.pc = "done", !.result = OkResult,
                                  !.returned = InvoicesWithValidity(
                                                  me.dbInvoices, validity)]]
               ELSE proc' = [proc EXCEPT ![p] = [m EXCEPT !.pc = "li_delete"]]
    /\ UNCHANGED <<invoiceVars, now, tokens, cachedOAuthClient, envCreds,
                   secretStore, srvCreds, srvGen>>

\* a faulty deletion: deleteMany({ dealId }) removes whatever records the
\* deal has when the deletion runs
GetInvoicesForDeal_Delete_ByDeal(p) ==
    /\ proc[p].pc = "li_delete"
    /\ LET me == proc[p]
       IN /\ invoices' = {inv \in invoices : inv.dealId # me.dealId}
          /\ proc' = [proc EXCEPT ![p] =
                 [me EXCEPT !.pc = "done", !.result = OkResult,
                            !.deleted = {inv \in invoices :
                                           inv.dealId = me.dealId},
                            !.returned = InvoicesWithValidity(
                                            me.dbInvoices, me.validity)]]
    /\ UNCHANGED <<now, tokenVars, customers, qbInvoices,
                   qbCustomers>>

\* invoices.deleteMany({ _id: { $in: deletedInvoiceIds } })
GetInvoicesForDeal_Delete(p) ==
    /\ proc[p].pc = "li_delete"
    /\ LET me == proc[p]
           deletedInvoiceIds == {inv._id : inv \in
                                   DeletedInvoices(me.dbInvoices, me.validity)}
       IN /\ invoices' = {inv \in invoices : inv._id \notin deletedInvoiceIds}
          /\ proc' = [proc EXCEPT ![p] =
                 [me EXCEPT !.pc = "done", !.result = OkResult,
                            !.deleted = {inv \in invoices :
                                           inv._id \in deletedInvoiceIds},
                            !.returned = InvoicesWithValidity(
                                            me.dbInvoices, me.validity)]]
    /\ UNCHANGED <<now, tokenVars, customers, qbInvoices,
                   qbCustomers>>

\* an invoice is deleted in QuickBooks by its users
QboDeleteInvoice ==
    /\ \E realm \in Realms, i \in InvoiceIds :
         /\ qbInvoices[realm][i] = "active"
         /\ qbInvoices' = [qbInvoices EXCEPT ![realm][i] = "deleted"]
    /\ UNCHANGED <<now, tokenVars, invoices, customers, qbCustomers,
                   proc>>

(***************************************************************************)
(* Store calls that reject (the connection is lost, a write is refused)    *)
(* getDB() itself returns the instance: lambda.js awaits connectDB before  *)
(* the first request is handled.                                           *)
(***************************************************************************)
StoreError == JsError("store error")
StoreFault == [status |-> 0, error |-> "", message |-> "store error"]

\* handleCreateInvoice: tokens.findOne, the customers.updateOne that
\* getOrCreateCustomer rethrows, or invoices.insertOne rejects
HandleCreateInvoice_StoreError(p, dealId) ==
    /\ proc[p].pc \in {"idle", "ci_save", "ci_insert"}
    /\ \E userId \in UserIds :
         LET me == IF proc[p].pc = "idle"
                   THEN [proc[p] EXCEPT !.op = "handleCreateInvoice",
                                        !.userId = userId, !.dealId = dealId,
                                        !.nowAt = now, !.before = invoices]
                   ELSE proc[p]
         IN /\ me.userId = userId /\ me.dealId = dealId
            /\ proc' = [proc EXCEPT ![p] = Catch(me, StoreError)]
    /\ UNCHANGED <<invoiceVars, now, tokenVars>>

\* getInvoicesForDeal: invoices.find, tokens.findOne or invoices.deleteMany
\* rejects
GetInvoicesForDeal_StoreError(p, dealId) ==
    /\ proc[p].pc \in {"idle", "li_delete"}
    /\ \E userId \in UserIds :
         LET me == IF proc[p].pc = "idle"
                   THEN [proc[p] EXCEPT !.op = "getInvoicesForDeal",
                                        !.userId = userId, !.dealId = dealId,
                                        !.before = invoices]
                   ELSE proc[p]
         IN /\ me.userId = userId /\ me.dealId = dealId
            /\ proc' = [proc EXCEPT ![p] =
                   [me EXCEPT !.pc = "done",
                              !.result = [out |-> "fail", status |-> 500,
                                          error |-> StoreError.message]]]
    /\ UNCHANGED <<invoiceVars, now, tokenVars>>

\* handleRefreshToken: getGlobalTokenDoc or upsertGlobalToken rejects
HandleRefreshToken_StoreError(p) ==
    /\ proc[p].pc \in {"idle", "hrt_start", "hrt_save"}
    /\ LET me == IF proc[p].pc = "idle"
                 THEN [proc[p] EXCEPT !.op = "handleRefreshToken",
                                      !.ret = "done"]
                 ELSE proc[p]
       IN proc' = [proc EXCEPT ![p] = HrtFail(me, StoreFault)]
    /\ UNCHANGED <<invoiceVars, now, tokenVars>>

(***************************************************************************)
(* The controllers: the HTTP response made of a handler's result           *)
(***************************************************************************)
\* JavaScript truthiness of a string-or-undefined value
TruthyStr(x) == x # "" /\ x # Undefined

successResponse(data, message) ==
    [statusCode |-> 200, success |-> TRUE, data |-> data,
     message |-> message, error |-> ""]

errorResponse(error, message, statusCode) ==
    [statusCode |-> statusCode, success |-> FALSE, data |-> {},
     message |-> message, error |-> error]

\* exports.createInvoice: if (result.error) errorResponse(...,
\* result.status || 500), else successResponse
createInvoice(result, invoiceNumber) ==
    IF TruthyStr(result.error)
    THEN errorResponse(result.error, "Failed to create invoice",
                       IF result.status # 0 THEN result.status ELSE 500)
    ELSE successResponse({invoiceNumber}, "Invoice created successfully")

\* exports.getInvoicesForDeal: a result without invoices, or with none, is
\* answered as a success with an empty list
getInvoicesForDeal(result, invoicesWithValidity) ==
    IF result.out # "ok" \/ invoicesWithValidity = {}
    THEN successResponse({}, "No invoices found for this deal")
    ELSE successResponse(invoicesWithValidity,
                         "Invoices retrieved successfully")

\* the response to the request p has served
Response(p) ==
    IF proc[p].op = "handleCreateInvoice"
    THEN createInvoice(proc[p].result, proc[p].invoiceNumber)
    ELSE getInvoicesForDeal(proc[p].result, proc[p].returned)

\* the requests are served one at a time, by one slot
Serving == {"p1"}

(***************************************************************************)
(* The invoice workflow and the reconciliation of one connected company    *)
(***************************************************************************)
NextInvoice ==
    \/ QboDeleteInvoice
    \/ \E p \in Serving : Respond(p)
    \/ \E p \in Serving, mode \in Modes : InvalidateGlobalToken(p, mode)
    \/ \E p \in Serving : HandleCallback_CreateToken(p, "R1")
    \/ \E p \in Serving : HandleCallback_Save(p)
    \/ \E p \in Serving : HandleCallback_Insert(p)
    \/ \E p \in Serving : HandleRefreshToken_Nested(p)
    \/ \E p \in Serving : HandleRefreshToken_Exchange(p)
    \/ \E p \in Serving : HandleRefreshToken_Save(p)
    \/ \E p \in Serving, dealId \in Deals : HandleCreateInvoice_Start(p, dealId)
    \/ \E p \in Serving : HandleCreateInvoice_GetHubSpotData(p)
    \/ \E p \in Serving : GetOrCreateCustomer_Find(p)
    \/ \E p \in Serving : GetOrCreateCustomer_Create(p)
    \/ \E p \in Serving : GetOrCreateCustomer_Save(p)
    \/ \E p \in Serving : CreateInvoice_Item(p)
    \/ \E p \in Serving : CreateInvoice_TaxTerm(p)
    \/ \E p \in Serving : CreateInvoice_Create(p)
    \/ \E p \in Serving : HandleCreateInvoice_UpdateDeal(p)
    \/ \E p \in Serving : HandleCreateInvoice_Insert(p)
    \/ \E p \in Serving, dealId \in Deals : GetInvoicesForDeal_Start(p, dealId)
    \/ \E p \in Serving : GetInvoicesForDeal_Verify(p)
    \/ \E p \in Serving : GetInvoicesForDeal_Delete(p)

SpecInvoice == Init /\ [][NextInvoice]_vars

(***************************************************************************)
(* The same, with store calls that reject                                  *)
(***************************************************************************)
NextFaults ==
    \/ NextInvoice
    \/ \E p \in Serving, dealId \in Deals :
          HandleCreateInvoice_StoreError(p, dealId)
    \/ \E p \in Serving, dealId \in Deals :
          GetInvoicesForDeal_StoreError(p, dealId)
    \/ \E p \in Serving : HandleRefreshToken_StoreError(p)

SpecFaults == Init /\ [][NextFaults]_vars

(***************************************************************************)
(* The invoice collection while the administrator connects one company     *)
(* after another; the requests are those of the deal "D1"                  *)
(***************************************************************************)
NextCompanies ==
    \/ \E p \in Serving : Respond(p)
    \/ \E p \in Serving, realm \in Realms : HandleCallback_CreateToken(p, realm)
    \/ \E p \in Serving : HandleCallback_Save(p)
    \/ \E p \in Serving : HandleCallback_Insert(p)
    \/ \E p \in Serving : HandleRefreshToken_Nested(p)
    \/ \E p \in Serving : HandleRefreshToken_Exchange(p)
    \/ \E p \in Serving : HandleRefreshToken_Save(p)
    \/ \E p \in Serving : HandleCreateInvoice_Start(p, "D1")
    \/ \E p \in Serving : HandleCreateInvoice_GetHubSpotData(p)
    \/ \E p \in Serving : GetOrCreateCustomer_Find(p)
    \/ \E p \in Serving : GetOrCreateCustomer_Create(p)
    \/ \E p \in Serving : GetOrCreateCustomer_Save(p)
    \/ \E p \in Serving : CreateInvoice_Item(p)
    \/ \E p \in Serving : CreateInvoice_TaxTerm(p)
    \/ \E p \in Serving : CreateInvoice_Create(p)
    \/ \E p \in Serving : HandleCreateInvoice_UpdateDeal(p)
    \/ \E p \in Serving : HandleCreateInvoice_Insert(p)
    \/ \E p \in Serving : GetInvoicesForDeal_Start(p, "D1")
    \/ \E p \in Serving : GetInvoicesForDeal_Verify(p)
    \/ \E p \in Serving : GetInvoicesForDeal_Delete(p)

SpecCompanies == Init /\ [][NextCompanies]_vars

(***************************************************************************)
(* The token lifecycle                                                     *)
(***************************************************************************)
NextToken ==
    \/ Tick
    \/ RotateCreds
    \/ \E p \in Serving : Respond(p)
    \/ \E p \in Serving : GetGlobalTokens_Start(p)
    \/ \E p \in Serving : GetGlobalTokens_Exchange(p)
    \/ \E p \in Serving : GetGlobalTokens_Save(p)
    \/ \E p \in Serving : HandleRefreshToken_Start(p)
    \/ \E p \in Serving : HandleRefreshToken_Nested(p)
    \/ \E p \in Serving : HandleRefreshToken_Exchange(p)
    \/ \E p \in Serving : HandleRefreshToken_Retry(p)
    \/ \E p \in Serving : HandleRefreshToken_Save(p)
    \/ \E p \in Serving, realm \in Realms : HandleCallback_CreateToken(p, realm)
    \/ \E p \in Serving : HandleCallback_Retry(p)
    \/ \E p \in Serving : HandleCallback_Save(p)
    \/ \E p \in Serving : HandleCallback_Insert(p)
    \/ \E p \in Serving, mode \in Modes : InvalidateGlobalToken(p, mode)

SpecToken == Init /\ [][NextToken]_vars

(***************************************************************************)
(* The token operations of two requests in flight at once: their steps     *)
(* interleave at the awaits                                                *)
(***************************************************************************)
NextConcurrent ==
    \/ \E p \in Procs : Respond(p)
    \/ \E p \in Procs : GetGlobalTokens_Start(p)
    \/ \E p \in Procs : GetGlobalTokens_Exchange(p)
    \/ \E p \in Procs : GetGlobalTokens_Save(p)
    \/ \E p \in Procs : HandleRefreshToken_Start(p)
    \/ \E p \in Procs : HandleRefreshToken_Nested(p)
    \/ \E p \in Procs : HandleRefreshToken_Exchange(p)
    \/ \E p \in Procs : HandleRefreshToken_Save(p)
    \/ \E p \in Procs : HandleCallback_CreateToken(p, "R1")
    \/ \E p \in Procs : HandleCallback_Save(p)
    \/ \E p \in Procs : HandleCallback_Insert(p)
    \/ \E p \in Procs, mode \in Modes : InvalidateGlobalToken(p, mode)

SpecConcurrent == Init /\ [][NextConcurrent]_vars

(***************************************************************************)
(* Invoice requests of one connected company served at the same time: the  *)
(* awaits of createInvoice and of getInvoicesForDeal interleave            *)
(***************************************************************************)
\* the state of the service once the OAuth callback of company R1 has
\* completed: the state Init, with the credentials in the environment,
\* reaches by HandleCallback_CreateToken, HandleCallback_Save,
\* HandleCallback_Insert and Respond
InitConnected ==
    LET token == [access_token |-> 1, refresh_token |-> 1, realmId |-> "R1",
                  expires_in |-> ExpiresInSec, createdAt |-> TickMs]
    IN
    /\ now = TickMs
    /\ tokens = {TokenDoc(UpsertPayload(token), Undefined)}
    /\ qbCreds = [cachedQBClientId |-> 1, cachedQBClientSecret |-> 1,
                  credsLoadedAt |-> TickMs]
    /\ cachedOAuthClient = [credsKey |-> 1, token |-> token]
    /\ secretsCache = [n \in SecretNames |-> NoEntry]
    /\ envCreds = 1
    /\ secretStore = 1
    /\ srvCreds = 1
    /\ srvGen = 1
    /\ invoices = {}
    /\ customers = {}
    /\ qbInvoices = [r \in Realms |-> [i \in InvoiceIds |-> "none"]]
    /\ qbCustomers = [r \in Realms |-> 0]
    /\ proc = [p \in Procs |-> IdleProc]

\* the request slot that creates invoices while the slot of Serving lists
\* the invoices of the deals
\* A create request whose QuickBooks or HubSpot call was refused for
\* authentication goes on to handleRefreshToken and answers 503: from there
\* it writes to the token collection only, and its steps are followed in
\* SpecInvoice; here the request stays at that point.
Creating == Procs \ Serving

NextInvoiceConcurrent ==
    \/ QboDeleteInvoice
    \/ \E p \in Procs : Respond(p)
    \/ \E p \in Creating, dealId \in Deals : HandleCreateInvoice_Start(p, dealId)
    \/ \E p \in Creating : HandleCreateInvoice_GetHubSpotData(p)
    \/ \E p \in Creating : GetOrCreateCustomer_Find(p)
    \/ \E p \in Creating : GetOrCreateCustomer_Create(p)
    \/ \E p \in Creating : GetOrCreateCustomer_Save(p)
    \/ \E p \in Creating : CreateInvoice_Item(p)
    \/ \E p \in Creating : CreateInvoice_TaxTerm(p)
    \/ \E p \in Creating : CreateInvoice_Create(p)
    \/ \E p \in Creating : HandleCreateInvoice_UpdateDeal(p)
    \/ \E p \in Creating : HandleCreateInvoice_Insert(p)
    \/ \E p \in Serving, dealId \in Deals : GetInvoicesForDeal_Start(p, dealId)
    \/ \E p \in Serving : GetInvoicesForDeal_Verify(p)
    \/ \E p \in Serving : GetInvoicesForDeal_Delete(p)

SpecInvoiceConcurrent == InitConnected /\ [][NextInvoiceConcurrent]_vars

(***************************************************************************)
(* Properties                                                              *)
(***************************************************************************)
Done(p, op) == proc[p].pc = "done" /\ proc[p].op = op

\* C1: a token that getGlobalTokens returns is not expired at the instant
\* the call read the clock (its issued-at + lifetime - 30 s is later than
\* that instant), and the call made exactly one refresh-token exchange when
\* the stored token was expired at that instant, and none when it was not.
C1_TokenFresh ==
    \A p \in Procs :
      (Done(p, "getGlobalTokens") /\ proc[p].result = OkResult) =>
        LET me == proc[p]
            storedExpired ==
                computeExpiresAt(me.stored.createdAt, me.stored.expiresIn)
                   - ExpiryBufferMs <= me.nowAt
        IN /\ computeExpiresAt(me.fresh.createdAt, me.fresh.expiresIn)
                 - ExpiryBufferMs > me.nowAt
           /\ me.exchanges = IF storedExpired THEN 1 ELSE 0

\* getGlobalTokens found the stored token expired, refreshed it and returned
C1_Witness ==
    \E p \in Procs :
      /\ Done(p, "getGlobalTokens") /\ proc[p].result = OkResult
      /\ proc[p].wasExpired /\ proc[p].exchanges = 1
      /\ proc[p].fresh.accessToken # proc[p].stored.accessToken

\* C6: within one call of handleRefreshToken or handleCallback (and the one
\* refresh of getGlobalTokens) the exchange is attempted at most twice and
\* the credential cache is reset at most once; a call whose retry failed
\* with invalid_client again has ended with a failure after two attempts.
C6_AtMostOneRetry ==
    \A p \in Procs :
      /\ proc[p].exchanges <= 2
      /\ proc[p].resets <= 1
      /\ (proc[p].resets = 1 /\ isInvalidClientError(proc[p].lastErr)) =>
           /\ proc[p].pc = "done"
           /\ proc[p].exchanges = 2
           /\ proc[p].result.out = "fail"

\* a call reset the cache, retried, and the retry failed with invalid_client
C6_Witness ==
    \E p \in Procs :
      /\ proc[p].pc = "done"
      /\ proc[p].op \in {"handleRefreshToken", "handleCallback"}
      /\ proc[p].resets = 1 /\ proc[p].exchanges = 2
      /\ isInvalidClientError(proc[p].firstErr)
      /\ isInvalidClientError(proc[p].lastErr)
      /\ proc[p].result.out = "fail"

\* C7: when getGlobalTokens found the stored token expired and its refresh
\* exchange failed with invalid_client, the call has reset the credential
\* cache once and attempted the exchange a second time.
C7_RetryOnInvalidClient ==
    \A p \in Procs :
      (/\ Done(p, "getGlobalTokens")
       /\ proc[p].wasExpired
       /\ isInvalidClientError(proc[p].firstErr)) =>
         proc[p].resets = 1 /\ proc[p].exchanges = 2

\* C2: a createInvoice invocation that ended with the invalid-amount error
\* has made no create-customer call and no create-invoice call to
\* QuickBooks.
C2_NoCallsBeforeInvalidAmount ==
    \A p \in Procs :
      (/\ Done(p, "handleCreateInvoice")
       /\ InvalidAmount(proc[p].amount)
       /\ proc[p].result.error = InvalidAmountMsg(proc[p].amount)) =>
         proc[p].nCreateCustomer = 0 /\ proc[p].nCreateInvoice = 0

\* C3: when the batch verification answered and reported M of the N records
\* read for the deal valid, M < N, getInvoicesForDeal has deleted exactly the
\* N - M records reported not valid, has left every other record of the
\* collection in place, and returns exactly the M valid records.
C3_DeletesExactlyInvalid ==
    \A p \in Procs :
      (Done(p, "getInvoicesForDeal") /\ proc[p].verified = "ok") =>
        LET me == proc[p]
            valid == {inv \in me.dbInvoices :
                        inv.invoiceNumber \in me.validity}
            N == Cardinality(me.dbInvoices)
            M == Cardinality(valid)
        IN M < N =>
             /\ me.deleted = me.dbInvoices \ valid
             /\ Cardinality(me.deleted) = N - M
             /\ invoices = me.before \ (me.dbInvoices \ valid)
             /\ Cardinality(me.before) - Cardinality(invoices) = N - M
             /\ me.returned = valid
             /\ Cardinality(me.returned) = M

\* two records were read, one was reported not valid and deleted
C3_Witness ==
    \E p \in Procs :
      /\ Done(p, "getInvoicesForDeal") /\ proc[p].verified = "ok"
      /\ Cardinality(proc[p].dbInvoices) = 2
      /\ Cardinality(proc[p].returned) = 1
      /\ Cardinality(proc[p].deleted) = 1
      /\ Cardinality(invoices) = Cardinality(proc[p].before) - 1

\* C4: when the batch-verification query failed, getInvoicesForDeal returns
\* every record it read for the deal and the invoice collection is the one
\* it was when the call started.
C4_FailOpen ==
    \A p \in Procs :
      (Done(p, "getInvoicesForDeal") /\ proc[p].verified = "threw") =>
        /\ proc[p].result = OkResult
        /\ proc[p].returned = proc[p].dbInvoices
        /\ proc[p].deleted = {}
        /\ invoices = proc[p].before

\* the query failed while a record read is of an invoice deleted in
\* QuickBooks
C4_Witness ==
    \E p \in Procs :
      /\ Done(p, "getInvoicesForDeal") /\ proc[p].verified = "threw"
      /\ \E inv \in proc[p].dbInvoices :
           qbInvoices[proc[p].realm][inv.invoiceNumber] = "deleted"
      /\ proc[p].returned = proc[p].dbInvoices

C8_AuthFailureGives503 ==
    \A p \in Procs :
      (Done(p, "handleCreateInvoice") /\ proc[p].authFail # "none") =>
        proc[p].nRefresh = 1 /\ proc[p].result.status = 503

\* C9: a createInvoice invocation that ended with an error after it created
\* an invoice in QuickBooks has persisted the record of that invoice.
C9_NoOrphanInvoice ==
    \A p \in Procs :
      (/\ Done(p, "handleCreateInvoice")
       /\ proc[p].result.out = "fail"
       /\ proc[p].invoiceNumber # 0) =>
         \E inv \in invoices :
           inv._id = ObjectId(proc[p].realm, proc[p].invoiceNumber)

\* C10: a createInvoice invocation whose update of the HubSpot deal failed
\* has persisted the record of the invoice it created, and a reading of the
\* deal's records finds it.
C10_RecordDespiteUpdateFailure ==
    \A p \in Procs :
      (Done(p, "handleCreateInvoice") /\ proc[p].updateFailed) =>
        \E inv \in {i \in invoices : i.dealId = proc[p].dealId} :
          inv.invoiceNumber = proc[p].invoiceNumber

\* C11: a record of the invoice collection is inserted by createInvoice only
\* after the invoice was created in QuickBooks and, after that, the HubSpot
\* deal was updated; an invocation in which the creation or the update
\* failed has inserted nothing and has left the collection as it was.
C11_InsertAfterBothSteps ==
    /\ \A p \in Procs :
         proc[p].op = "handleCreateInvoice" =>
           LET me == proc[p] IN
           /\ me.dealUpdated =>
                /\ me.invoiceNumber # 0 /\ me.nCreateInvoice = 1
                /\ qbInvoices[me.realm][me.invoiceNumber] # "none"
           /\ me.inserted => me.dealUpdated /\ ~me.updateFailed
           /\ (me.pc \in {"ci_insert", "done"}
                 /\ (me.invoiceNumber = 0 \/ ~me.dealUpdated)) =>
                /\ me.pc = "done" /\ me.result.out = "fail"
                /\ ~me.inserted
                /\ invoices = me.before
    /\ \A inv \in invoices : qbInvoices[inv._id[1]][inv.invoiceNumber] # "none"

\* the invoice was created, the deal was updated, the record was inserted
C11_Witness ==
    \E p \in Procs :
      /\ Done(p, "handleCreateInvoice") /\ proc[p].result = OkResult
      /\ proc[p].inserted /\ proc[p].dealUpdated
      /\ \E inv \in invoices \ proc[p].before :
           /\ inv.invoiceNumber = proc[p].invoiceNumber
           /\ inv.dealId = proc[p].dealId

\* the Shared Token lacks an access token, a refresh token or a realm id
Incomplete(d) ==
    /\ d # NoDoc
    /\ (d.accessToken = 0 \/ d.refreshToken = 0 \/ d.realmId = NoRealm)

\* C12: while no Shared Token is stored, a createInvoice invocation has
\* ended with the error "QuickBooks not connected" and status 400; while the
\* stored one lacks a field it has ended with status 400 and that error or,
\* when its query by user id found the document, "Missing QuickBooks
\* tokens".  In both cases it has made no HubSpot call, no QuickBooks call
\* and no token refresh, and has inserted no record.
C12_NotConnected ==
    \A p \in Procs :
      (/\ proc[p].op = "handleCreateInvoice"
       /\ (getGlobalTokenDoc = NoDoc \/ Incomplete(getGlobalTokenDoc))) =>
        LET me == proc[p] IN
        /\ me.pc = "done"
        /\ me.result.out = "fail" /\ me.result.status = 400
        /\ me.result.error = IF getGlobalTokenDoc = NoDoc \/ me.stored = NoDoc
                             THEN "QuickBooks not connected"
                             ELSE "Missing QuickBooks tokens"
        /\ ~me.fetched /\ ~me.dealUpdated
        /\ me.nCreateCustomer = 0 /\ me.nCreateInvoice = 0
        /\ me.authFail = "none"
        /\ me.nRefresh = 0 /\ me.exchanges = 0
        /\ ~me.inserted /\ invoices = me.before
        /\ me.stored \in {NoDoc, getGlobalTokenDoc}

\* createInvoice was called while the token collection was empty
C12_Witness ==
    \E p \in Procs :
      /\ Done(p, "handleCreateInvoice")
      /\ tokens = {} /\ proc[p].stored = NoDoc
      /\ proc[p].result = NotConnected

\* the positions of createInvoice at which a QuickBooks call is made next
QboCallPcs == {"ci_find", "ci_newcustomer", "ci_item", "ci_taxterm",
               "ci_create"}

\* C13: when the token createInvoice read was expired at the time of the
\* call, then by the time it makes a QuickBooks call one refresh-token
\* exchange has been made and the stored token's createdAt and expiresIn
\* have been renewed.
C13_RefreshedBeforeAccountingCalls ==
    \A p \in Procs :
      (/\ proc[p].op = "handleCreateInvoice"
       /\ proc[p].pc \in QboCallPcs
       /\ computeExpiresAt(proc[p].stored.createdAt, proc[p].stored.expiresIn)
             - ExpiryBufferMs <= proc[p].nowAt) =>
        /\ proc[p].exchanges = 1
        /\ computeExpiresAt(getGlobalTokenDoc.createdAt,
                            getGlobalTokenDoc.expiresIn)
              - ExpiryBufferMs > proc[p].nowAt

C15_DistinctFailures ==
    \A p \in Procs :
      Done(p, "getGlobalTokens") =>
        /\ proc[p].stored = NoDoc =>
             /\ proc[p].result = Thrown(NoTokenMsg)
             /\ proc[p].exchanges = 0 /\ tokens = {}
        /\ Incomplete(proc[p].stored) =>
             /\ proc[p].result.out = "throw"
             /\ proc[p].result # Thrown(NoTokenMsg)
             /\ proc[p].exchanges = 0 /\ getGlobalTokenDoc = proc[p].stored

\* C16: a getGlobalTokens call that found the Shared Token complete and,
\* at the instant it read the clock, more than 30 s before its issued-at +
\* lifetime, has returned exactly the stored token, has made no
\* refresh-token exchange and has left the stored document as it was.
C16_ValidTokenReturnedUnchanged ==
    \A p \in Procs :
      (/\ Done(p, "getGlobalTokens")
       /\ proc[p].stored # NoDoc /\ ~Incomplete(proc[p].stored)
       /\ proc[p].nowAt < proc[p].stored.createdAt.ms
                            + proc[p].stored.expiresIn * 1000
                            - ExpiryBufferMs) =>
        /\ proc[p].result = OkResult
        /\ proc[p].fresh = proc[p].stored
        /\ proc[p].exchanges = 0 /\ ~proc[p].wasExpired
        /\ tokens = {proc[p].stored}

\* a getGlobalTokens call returned the stored, still valid token
C16_Witness ==
    \E p \in Procs :
      /\ Done(p, "getGlobalTokens") /\ proc[p].result = OkResult
      /\ proc[p].stored # NoDoc
      /\ proc[p].nowAt < proc[p].stored.createdAt.ms
                            + proc[p].stored.expiresIn * 1000
                            - ExpiryBufferMs
      /\ proc[p].fresh = proc[p].stored /\ proc[p].exchanges = 0
      /\ srvGen = proc[p].stored.accessToken

\* the failures of a refresh-token exchange other than invalid_client
OtherExchangeErrors == {ErrInvalidGrant, ErrNetwork}

\* C17: a getGlobalTokens or handleRefreshToken call whose refresh-token
\* exchange failed with an error other than invalid_client has made no
\* further exchange after that failure (none but the one retry that
\* followed an invalid_client failure), has reported the error to its caller
\* (thrown, or as a failure result with status 500), and has left the stored
\* Shared Token as it read it.
C17_OtherFailureNotRetried ==
    \A p \in Procs :
      /\ proc[p].pc \in {"hrt_retry", "hcb_retry"} =>
           proc[p].firstErr = ErrInvalidClient
      /\ (/\ proc[p].pc = "done"
          /\ proc[p].op \in {"getGlobalTokens", "handleRefreshToken",
                              "invalidate_refreshNow"}
          /\ proc[p].lastErr \in OtherExchangeErrors) =>
           /\ proc[p].exchanges = 1 + proc[p].resets
           /\ proc[p].firstErr \in OtherExchangeErrors =>
                proc[p].resets = 0 /\ proc[p].exchanges = 1
           /\ proc[p].result.out \in {"throw", "fail"}
           /\ proc[p].result.out = "fail" => proc[p].result.status = 500
           /\ proc[p].result.error = proc[p].lastErr.message
           /\ proc[p].stored # NoDoc /\ tokens = {proc[p].stored}

\* a refresh through handleRefreshToken was refused with invalid_grant
C17_Witness ==
    \E p \in Procs :
      /\ Done(p, "handleRefreshToken")
      /\ proc[p].lastErr = ErrInvalidGrant
      /\ proc[p].exchanges = 1 /\ proc[p].resets = 0
      /\ proc[p].result = [out |-> "fail", status |-> 500,
                           error |-> "invalid_grant"]
      /\ tokens = {proc[p].stored}

\* C18: a handleCallback call that succeeded has stored the token set its
\* authorization-code exchange obtained as the one document under the
\* global key, replacing the fields of the document that was there; a call
\* whose exchange failed has returned a failure result and has left the
\* token collection as it was.
C18_CallbackPersists ==
    \A p \in Procs :
      Done(p, "handleCallback") =>
        LET me == proc[p]
            d == getGlobalTokenDoc
            tok == ClientToken(p)
        IN /\ me.result.out \in {"ok", "fail"}
           /\ me.result = OkResult =>
                /\ tokens = {d} /\ d.key = GLOBAL_TOKEN_KEY
                /\ tok.access_token # 0 /\ tok.realmId = me.realm
                /\ d.accessToken = tok.access_token
                /\ d.refreshToken = tok.refresh_token
                /\ d.realmId = tok.realmId
                /\ d.expiresIn = tok.expires_in
                /\ d.createdAt = NumTime(tok.createdAt)
           /\ me.result.out = "fail" =>
                /\ me.result.error \in {"Failed to create OAuth token",
                                         "Failed to connect to QuickBooks"}
                /\ me.lastErr # NoError
                /\ tokens = IF me.stored = NoDoc THEN {} ELSE {me.stored}

\* a callback for another company overwrote the stored Shared Token
C18_Witness ==
    \E p \in Procs :
      /\ Done(p, "handleCallback") /\ proc[p].result = OkResult
      /\ proc[p].stored # NoDoc
      /\ proc[p].stored.realmId # proc[p].realm
      /\ tokens = {getGlobalTokenDoc}
      /\ getGlobalTokenDoc.realmId = proc[p].realm
      /\ getGlobalTokenDoc.accessToken # proc[p].stored.accessToken

\* C19: whatever handleCallback, getGlobalTokens, handleRefreshToken and
\* invalidateGlobalToken calls have run, one after another or interleaved,
\* the token collection holds at most one document, and its key is the
\* global key.
C19_AtMostOneSharedToken ==
    /\ Cardinality({d \in tokens : d.key = GLOBAL_TOKEN_KEY}) <= 1
    /\ \A d \in tokens : d.key = GLOBAL_TOKEN_KEY

\* two callbacks found no document; the insert of the second was refused
C19_Witness ==
    \E p, q \in Procs :
      /\ p # q
      /\ Done(p, "handleCallback") /\ proc[p].result = OkResult
      /\ Done(q, "handleCallback") /\ proc[q].dupKey
      /\ Cardinality(tokens) = 1

\* the instants of the clock
Instants == {k * TickMs : k \in 0..MaxTicks}

\* C20: after invalidateGlobalToken("expire") succeeded, the document still
\* holds the access token, refresh token and realm id it held, and no
\* instant passes its expiry test; a getGlobalTokens call that reads a
\* complete document so expired goes on to a refresh-token exchange and
\* never returns the stored access token.
C20_ExpireForcesRefresh ==
    \A p \in Procs :
      /\ (Done(p, "invalidate_expire") /\ proc[p].result = OkResult) =>
           LET d == getGlobalTokenDoc IN
           /\ d.accessToken = proc[p].stored.accessToken
           /\ d.refreshToken = proc[p].stored.refreshToken
           /\ d.realmId = proc[p].stored.realmId
           /\ \A t \in Instants : ~StillValid(d, t)
      /\ (/\ proc[p].op = "getGlobalTokens" /\ proc[p].pc # "idle"
          /\ proc[p].stored # NoDoc /\ ~Incomplete(proc[p].stored)
          /\ proc[p].stored.createdAt = DateObj(0)
          /\ proc[p].stored.expiresIn = 0) =>
           /\ proc[p].wasExpired
           /\ proc[p].pc \in {"gvt_exchange", "gvt_save", "done"}
           /\ proc[p].refreshValue = proc[p].stored.refreshToken
           /\ (proc[p].pc = "done" /\ proc[p].result = OkResult) =>
                /\ proc[p].exchanges = 1
                /\ proc[p].fresh.accessToken # proc[p].stored.accessToken

\* a token was expired at the instant it was issued, and the next
\* getGlobalTokens call refreshed it
C20_Witness ==
    \E p \in Procs :
      /\ Done(p, "getGlobalTokens") /\ proc[p].result = OkResult
      /\ now = TickMs
      /\ proc[p].stored # NoDoc
      /\ proc[p].stored.createdAt = DateObj(0)
      /\ proc[p].stored.expiresIn = 0
      /\ proc[p].exchanges = 1
      /\ proc[p].fresh.accessToken # proc[p].stored.accessToken
      /\ getGlobalTokenDoc.createdAt = NumTime(now)

\* the calls that make a refresh-token exchange
RefreshOps == {"getGlobalTokens", "handleRefreshToken",
               "invalidate_refreshNow"}

\* C21: after invalidateGlobalToken("revoke") succeeded the document holds
\* neither access nor refresh token; every getGlobalTokens and
\* handleRefreshToken call that reads such a document fails without an
\* exchange with the OAuth endpoint and leaves the document as it is; a
\* handleCallback that succeeds stores both tokens again.
C21_RevokedUntilCallback ==
    \A p \in Procs :
      /\ (Done(p, "invalidate_revoke") /\ proc[p].result = OkResult) =>
           /\ getGlobalTokenDoc # NoDoc
           /\ getGlobalTokenDoc.accessToken = 0
           /\ getGlobalTokenDoc.refreshToken = 0
      /\ (/\ proc[p].op \in RefreshOps /\ proc[p].pc # "idle"
          /\ proc[p].stored # NoDoc
          /\ proc[p].stored.accessToken = 0
          /\ proc[p].stored.refreshToken = 0) =>
           /\ proc[p].pc \in {"hrt_start", "done"}
           /\ proc[p].exchanges = 0
           /\ proc[p].pc = "done" =>
                /\ proc[p].result.out \in {"throw", "fail"}
                /\ proc[p].result.error \in
                      {NoTokenMsg, "No global refresh token found"}
           /\ tokens = {proc[p].stored}
      /\ (Done(p, "handleCallback") /\ proc[p].result = OkResult) =>
           /\ getGlobalTokenDoc.accessToken # 0
           /\ getGlobalTokenDoc.refreshToken # 0

\* a forced refresh was refused on the revoked token
C21_Witness ==
    \E p \in Procs :
      /\ Done(p, "handleRefreshToken")
      /\ proc[p].stored # NoDoc
      /\ proc[p].stored.accessToken = 0 /\ proc[p].stored.refreshToken = 0
      /\ proc[p].stored.realmId \in Realms
      /\ proc[p].exchanges = 0
      /\ proc[p].result = [out |-> "fail", status |-> 404,
                           error |-> "No global refresh token found"]

\* the Shared Token holds an access token and a refresh token
Connected(d) == d # NoDoc /\ d.accessToken # 0 /\ d.refreshToken # 0

\* C22: no step removes the Shared Token document, and the only step that
\* takes a connected Shared Token to one without its tokens is
\* invalidateGlobalToken("revoke"): getGlobalTokens, handleRefreshToken
\* (successful or failed), handleCallback and invalidateGlobalToken("expire")
\* leave a connected token connected.
C22_StaysConnected ==
    [][/\ tokens # {} => tokens' # {}
       /\ (Connected(getGlobalTokenDoc) /\ ~Connected(getGlobalTokenDoc')) =>
            \E p \in Procs : /\ proc[p].pc = "idle"
                             /\ proc'[p].op = "invalidate_revoke"
                             /\ proc'[p].result = OkResult]_vars

\* the token was expired, its refresh failed, and it is still connected
C22_Witness ==
    \E p \in Procs :
      /\ Done(p, "getGlobalTokens") /\ proc[p].result.out = "throw"
      /\ proc[p].exchanges = 1
      /\ proc[p].stored # NoDoc
      /\ proc[p].stored.createdAt = DateObj(0)
      /\ Connected(getGlobalTokenDoc)
      /\ getGlobalTokenDoc = proc[p].stored

\* the positions of createInvoice after the customer was resolved and the
\* mapping was saved
ResolvedPcs == {"ci_item", "ci_taxterm", "ci_create", "ci_update",
                "ci_insert"}

\* C23: once createInvoice has resolved the customer, the customer
\* collection holds a mapping whose key is the HubSpot contact id and whose
\* customer id is the one resolved; no two mappings have the same key.
C23_MappingKeyedByContact ==
    /\ \A a, b \in customers : a.contactId = b.contactId => a = b
    /\ \A p \in Procs :
         (proc[p].op = "handleCreateInvoice" /\ proc[p].pc \in ResolvedPcs) =>
           \E c \in customers : /\ c.contactId = Contact
                                /\ c.id = proc[p].customerId

\* C24: QuickBooks holds at most one customer for the contact's email;
\* createInvoice makes a create-customer call only while it holds none, and
\* every resolution yields the id of that one customer: a resolution that
\* follows another one yields the same id and makes no create-customer call.
C24_SameCustomerTwice ==
    /\ \A realm \in Realms : qbCustomers[realm] <= 1
    /\ \A p \in Procs :
         proc[p].op = "handleCreateInvoice" =>
           /\ proc[p].pc = "ci_newcustomer" => qbCustomers[proc[p].realm] = 0
           /\ proc[p].nCreateCustomer <= 1
           /\ proc[p].customerId # 0 =>
                /\ proc[p].customerId = 1
                /\ qbCustomers[proc[p].realm] = 1

\* the customer an earlier invocation created was found and reused
C24_Witness ==
    \E p \in Procs :
      /\ proc[p].op = "handleCreateInvoice" /\ proc[p].pc \in ResolvedPcs
      /\ proc[p].nCreateCustomer = 0
      /\ proc[p].customerId = 1
      /\ qbCustomers[proc[p].realm] = 1

\* C25: a getInvoicesForDeal call that read no record for the deal has
\* returned a success with an empty list, whether or not a Shared Token is
\* stored; it has read no token, made no QuickBooks call and no token
\* refresh, and has left the invoice collection as it was.
C25_EmptyDealIsSuccess ==
    \A p \in Procs :
      (Done(p, "getInvoicesForDeal") /\ proc[p].dbInvoices = {}) =>
        /\ proc[p].result = OkResult
        /\ proc[p].returned = {}
        /\ ~proc[p].tokenRead /\ proc[p].stored = NoDoc
        /\ proc[p].verified = "none" /\ proc[p].authFail = "none"
        /\ proc[p].nRefresh = 0 /\ proc[p].exchanges = 0
        /\ proc[p].deleted = {} /\ invoices = proc[p].before

\* the deal has no record and no Shared Token is stored
C25_Witness ==
    \E p \in Procs :
      /\ Done(p, "getInvoicesForDeal") /\ proc[p].dbInvoices = {}
      /\ tokens = {}
      /\ proc[p].result = OkResult /\ proc[p].returned = {}

\* C26: when createInvoice or getInvoicesForDeal has returned an error
\* result, the HTTP response has the status of the result, success = false
\* and the error text of the result; it is not a 200 success.
C26_ErrorResultGivesErrorResponse ==
    \A p \in Procs :
      (/\ proc[p].pc = "done"
       /\ proc[p].op \in {"handleCreateInvoice", "getInvoicesForDeal"}
       /\ proc[p].result.out = "fail") =>
        /\ Response(p).statusCode = proc[p].result.status
        /\ Response(p).statusCode # 200
        /\ ~Response(p).success
        /\ Response(p).error = proc[p].result.error

\* C27: getInvoicesForDeal deletes only records whose key the verification
\* result does not hold as valid; when the QuickBooks query completed
\* without error but its response held no invoice list, the call has
\* deleted no record.
C27_NoDeletionOnEmptyResponse ==
    \A p \in Procs :
      proc[p].op = "getInvoicesForDeal" =>
        /\ \A inv \in proc[p].deleted :
             /\ inv \in proc[p].dbInvoices
             /\ InvoiceKey(inv) \notin proc[p].validity
        /\ (proc[p].pc = "done" /\ proc[p].verified = "empty") =>
             /\ proc[p].deleted = {}
             /\ invoices = proc[p].before

\* the steps of a refresh between the read of the document and its write
RefreshingPcs == {"gvt_exchange", "gvt_save", "hrt_exchange", "hrt_save"}

\* C28: a getGlobalTokens or handleRefreshToken call that has read the stored
\* refresh token and stands before its exchange is never held back by
\* another call that is inside its own read-exchange-write sequence: its
\* exchange with the refresh token it read can be taken at once.
C28_ExchangeNeverWaits ==
    \A p \in Procs : \A q \in Procs \ {p} :
      proc[q].pc \in RefreshingPcs =>
        /\ proc[p].pc = "gvt_exchange" =>
             /\ proc[p].refreshValue = proc[p].stored.refreshToken
             /\ ENABLED GetGlobalTokens_Exchange(p)
        /\ proc[p].pc = "hrt_exchange" =>
             /\ proc[p].refreshValue = proc[p].stored.refreshToken
             /\ ENABLED HandleRefreshToken_Exchange(p)

\* two overlapping calls read the same document, and each has completed its
\* own exchange with the refresh token of that document
C28_Witness ==
    \E p \in Procs : \E q \in Procs \ {p} :
      /\ proc[p].op = "getGlobalTokens" /\ proc[p].wasExpired
      /\ proc[q].op \in {"getGlobalTokens", "handleRefreshToken"}
      /\ proc[p].pc = "done" /\ proc[p].result = OkResult
      /\ proc[q].pc = "done" /\ proc[q].result = OkResult
      /\ proc[p].exchanges = 1 /\ proc[q].exchanges = 1
      /\ proc[p].stored # NoDoc
      /\ proc[p].stored = proc[q].stored
      /\ proc[p].refreshValue = proc[p].stored.refreshToken
      /\ proc[q].refreshValue = proc[p].stored.refreshToken

\* C29: with the client credentials held in the secret store, the second
\* exchange of a handleRefreshToken or handleCallback call, the one made after
\* resetQbCredsCache(), is sent by a client built with the secret the secret
\* store holds at that moment.
C29_RetryUsesReloadedCreds ==
    \A p \in Procs :
      (/\ proc[p].op \in {"handleRefreshToken", "handleCallback"}
       /\ envCreds = 0
       /\ proc[p].resets = 1 /\ proc[p].exchanges = 2) =>
         proc[p].usedKey = proc[p].storeAt

\* C30: every record that leaves the invoice collection is removed by the
\* deletion step of a getInvoicesForDeal call, was read by that call for its
\* deal when the call started, and has a key the verification result of the
\* call does not hold as valid; records of other deals, and records inserted
\* by a createInvoice call after that read, stay in the collection.
C30_DeletesOnlyWhatItRead ==
    [][\A inv \in invoices \ invoices' :
         \E p \in Procs :
           /\ proc[p].op = "getInvoicesForDeal"
           /\ proc[p].pc = "li_delete" /\ proc'[p].pc = "done"
           /\ inv \in proc[p].dbInvoices
           /\ inv \in proc[p].before
           /\ inv.dealId = proc[p].dealId
           /\ InvoiceKey(inv) \notin proc[p].validity]_vars

\* a getInvoicesForDeal call has deleted a record of its deal while the
\* collection keeps a record of the same deal that a createInvoice call
\* inserted after the call had read the deal's records
C30_Witness ==
    \E p \in Procs :
      /\ Done(p, "getInvoicesForDeal")
      /\ proc[p].deleted # {}
      /\ \E inv \in invoices :
           /\ inv.dealId = proc[p].dealId
           /\ inv \notin proc[p].before
           /\ inv \notin proc[p].dbInvoices

====
